---- MODULE Spec2Model ----
(***************************************************************************)
(* Model of app.py, the Streamlit dashboard over the music and mental      *)
(* health survey.  Streamlit runs the whole script from its first to its   *)
(* last line on page load and again after every widget change; the only    *)
(* state kept between two runs is the value of each widget.  One action    *)
(* of the model is therefore one user event followed by one complete run   *)
(* of the script.                                                          *)
(*                                                                         *)
(* A cell of a DataFrame is a record [k, n, d, s]: the number n/d when     *)
(* k = "num", the text s when k = "str", NaN (missing) when k = "nan".     *)
(* Numbers are exact rationals in lowest terms, so 1.5 hours is 3/2.       *)
(* A DataFrame is [cols, idx, row]: its column names, its index labels     *)
(* and one row (a function from column name to cell) per label.           *)
(***************************************************************************)
EXTENDS Integers, Sequences, FiniteSets, TLC

\* ------------------------------------------------------------------ bounds
\* Largest number of rows of the loaded CSV.
MaxRows == 2

\* Largest number of widget changes (reruns after the first run) in a session.
MaxReruns == 2

\* ------------------------------------------------------------------ cells
RECURSIVE GCD(_, _)
GCD(a, b) == IF b = 0 THEN a ELSE GCD(b, a % b)

Abs(x) == IF x < 0 THEN -x ELSE x

NaN == [k |-> "nan", n |-> 0, d |-> 1, s |-> ""]

Str(t) == [k |-> "str", n |-> 0, d |-> 1, s |-> t]

\* The rational a/b (b > 0) in lowest terms.
Rat(a, b) ==
    LET g == GCD(Abs(a), b)
    IN  [k |-> "num", n |-> a \div g, d |-> b \div g, s |-> ""]

Num(a) == Rat(a, 1)

IsNum(c) == c.k = "num"

\* pandas isna(): only NaN is missing, a text is a value.
IsNA(c) == c.k = "nan"

\* Order of two numeric cells.
Leq(x, y) == x.n * y.d <= y.n * x.d

Lt(x, y) == x.n * y.d < y.n * x.d

RAdd(x, y) == Rat(x.n * y.d + y.n * x.d, x.d * y.d)

RSub(x, y) == Rat(x.n * y.d - y.n * x.d, x.d * y.d)

RMul(x, y) == Rat(x.n * y.n, x.d * y.d)

\* x divided by the positive integer m.
RDivInt(x, m) == Rat(x.n, x.d * m)

\* Python int(x) of a float: truncation towards zero.
IntTrunc(x) ==
    IF x.n >= 0 THEN Num(x.n \div x.d) ELSE Num(-((-x.n) \div x.d))

\* Series.between(lo, hi), inclusive on both sides; a comparison with NaN
\* on either side is False.
Between(c, lo, hi) ==
    /\ IsNum(c) /\ IsNum(lo) /\ IsNum(hi)
    /\ Leq(lo, c) /\ Leq(c, hi)

\* The numeric cells of a set of cells.
Nums(S) == {c \in S : IsNum(c)}

\* Series.min() / Series.max(): NaN is skipped; NaN when nothing is left.
MinOf(S) ==
    IF Nums(S) = {} THEN NaN
    ELSE CHOOSE m \in Nums(S) : \A c \in Nums(S) : Leq(m, c)

MaxOf(S) ==
    IF Nums(S) = {} THEN NaN
    ELSE CHOOSE m \in Nums(S) : \A c \in Nums(S) : Leq(c, m)

RECURSIVE SumSeq(_)
SumSeq(q) == IF q = <<>> THEN Num(0) ELSE RAdd(Head(q), SumSeq(Tail(q)))

\* mean(skipna=True) of a sequence of cells: the mean of the numeric ones,
\* NaN when there is none.
MeanSkipNa(q) ==
    LET nums == SelectSeq(q, IsNum)
    IN  IF nums = <<>> THEN NaN ELSE RDivInt(SumSeq(nums), Len(nums))

\* ------------------------------------------------------------------ frames
EmptyFrame(cols) == [cols |-> cols, idx |-> {}, row |-> <<>>]

\* df[mask]: a new frame with the rows whose label is in keep, columns
\* unchanged.
FilterRows(f, keep) ==
    [cols |-> f.cols, idx |-> keep, row |-> [i \in keep |-> f.row[i]]]

\* df[name] = values: adds or overwrites a column; values[i] is the cell of
\* row i.
SetColumn(f, name, values) ==
    [cols |-> f.cols \cup {name},
     idx  |-> f.idx,
     row  |-> [i \in f.idx |->
                 [c \in f.cols \cup {name} |->
                     IF c = name THEN values[i] ELSE f.row[i][c]]]]

\* df[list of columns]
Project(f, cols) ==
    [cols |-> cols, idx |-> f.idx,
     row |-> [i \in f.idx |-> [c \in cols |-> f.row[i][c]]]]

\* df.dropna(subset=cols): drops every row with a missing cell in cols.
DropNa(f, cols) ==
    FilterRows(f, {i \in f.idx : \A c \in cols : ~IsNA(f.row[i][c])})

\* df.empty
IsEmpty(f) == f.idx = {}

\* The cells of one column, as a set.
ColumnCells(f, c) == {f.row[i][c] : i \in f.idx}

\* The labels of a frame in increasing order.
RECURSIVE SortedLabels(_)
SortedLabels(S) ==
    IF S = {} THEN <<>>
    ELSE LET m == CHOOSE x \in S : \A y \in S : x <= y
         IN  <<m>> \o SortedLabels(S \ {m})

\* ------------------------------------------------------------------ dataset
\* The headers of the CSV in file order.  "BPM" may be absent from a dataset.
Headers ==
    <<"Age", "Hours per day", "Fav genre", "Exploratory", "BPM",
      "Frequency [Jazz]", "Frequency [Rock]",
      "Anxiety", "Depression", "Insomnia", "OCD", "Music effects">>

HeaderSet == {Headers[i] : i \in 1..Len(Headers)}

MkRow(age, hours, fav, expl, bpm, fj, fr, anx, dep, ins, ocd, eff) ==
    [c \in HeaderSet |->
        CASE c = "Age" -> age
          [] c = "Hours per day" -> hours
          [] c = "Fav genre" -> fav
          [] c = "Exploratory" -> expl
          [] c = "BPM" -> bpm
          [] c = "Frequency [Jazz]" -> fj
          [] c = "Frequency [Rock]" -> fr
          [] c = "Anxiety" -> anx
          [] c = "Depression" -> dep
          [] c = "Insomnia" -> ins
          [] c = "OCD" -> ocd
          [] OTHER -> eff]

\* The respondents a CSV row is drawn from: a plain one, ones with
\* fractional hours, a missing tempo, a tempo above 250, a missing health
\* score, a health score that is text, and an unexpected frequency word.
RowPool ==
    << MkRow(Num(30), Num(1), Str("Rock"), Str("Yes"), Num(120),
             Str("Never"), Str("Very frequently"),
             Num(4), Num(6), Num(2), Num(0), Str("Improve")),
       MkRow(Num(70), Rat(1, 2), Str("Jazz"), Str("No"), Num(90),
             Str("Sometimes"), Str("Sometimes"),
             Num(2), Num(2), Num(2), Num(2), Str("No effect")),
       MkRow(Num(22), Rat(5, 2), Str("Rock"), Str("Yes"), Num(260),
             Str("Rarely"), Str("Never"),
             Num(8), Num(6), Num(4), Num(2), Str("Worsen")),
       MkRow(Num(45), Rat(3, 2), Str("Jazz"), Str("No"), NaN,
             NaN, Str("Rarely"),
             Num(1), Num(0), Num(0), Num(0), Str("Improve")),
       MkRow(Num(30), Num(1), Str("Rock"), Str("Yes"), Num(120),
             Str("Never"), Str("Very frequently"),
             NaN, Num(6), Num(2), Num(0), Str("Improve")),
       MkRow(Num(30), Num(2), NaN, Str("Yes"), Num(121),
             Str("Very frequently"), Str("Never"),
             Str("high"), Str("7"), Num(2), Num(0), Str("Improve")),
       MkRow(Num(30), Num(1), Str("Rock"), Str("Yes"), Num(120),
             Str("Often"), Str("Very frequently"),
             Num(4), Num(6), Num(2), Num(0), Str("Improve")) >>

\* The nondecreasing sequences over 1..n of length at most m: a CSV is a
\* choice of rows from the pool, and the order of its rows does not matter
\* to any computation of the script.
RECURSIVE Picks(_, _)
Picks(m, n) ==
    IF m = 0 THEN {<<>>}
    ELSE LET shorter == Picks(m - 1, n)
         IN  shorter \cup
             {Append(q, j) : q \in {p \in shorter : Len(p) = m - 1},
                             j \in 1..n} 

Nondecreasing(q) == \A i \in 1..(Len(q) - 1) : q[i] <= q[i + 1]

\* pd.read_csv: a frame with the default RangeIndex (labels 1..n here).
ReadCsv(pick, hasBpm) ==
    LET cols == IF hasBpm THEN HeaderSet ELSE HeaderSet \ {"BPM"}
    IN  [cols |-> cols,
         idx  |-> 1..Len(pick),
         row  |-> [i \in 1..Len(pick) |-> [c \in cols |-> RowPool[pick[i]][c]]]]

Datasets ==
    {ReadCsv(p, b) : p \in {q \in Picks(MaxRows, Len(RowPool)) : Nondecreasing(q)},
                     b \in BOOLEAN}

\* ------------------------------------------------------------------ columns
health_words == {"Anxiety", "Depression", "Insomnia", "OCD"}

\* The headers c with `x in c` for a health word x: among the headers of
\* the model a header contains a health word only when it is that word.
HealthHeaders == {c \in HeaderSet : c \in health_words}

\* The headers with c.startswith("Frequency [") and those with
\* c.startswith("Frequency"): the same headers in this dataset.
FrequencyBracketHeaders == {"Frequency [Jazz]", "Frequency [Rock]"}

FrequencyHeaders == {"Frequency [Jazz]", "Frequency [Rock]"}

\* A list comprehension over df.columns: the columns of the frame that are
\* among names, in file order.
ColumnsAmong(f, names) ==
    SelectSeq(Headers, LAMBDA c : c \in f.cols /\ c \in names)

SeqToSet(q) == {q[i] : i \in 1..Len(q)}

\* ------------------------------------------------------------------ encoding
freq_map ==
    ("Never" :> 0) @@ ("Rarely" :> 1) @@ ("Sometimes" :> 2)
        @@ ("Very frequently" :> 3)

\* DataFrame.replace(freq_map): a cell equal to a key becomes its rank,
\* every other cell (NaN, an unexpected word) is left as it is.
Replace(c) ==
    IF c.k = "str" /\ c.s \in DOMAIN freq_map THEN Num(freq_map[c.s]) ELSE c

\* The texts of the model that parse as a number.
numeric_text == ("7" :> 7)

\* pd.to_numeric(errors="coerce"): a number stays, a text that parses
\* becomes its number, any other text becomes NaN.
ToNumeric(c) ==
    IF c.k = "str"
    THEN IF c.s \in DOMAIN numeric_text THEN Num(numeric_text[c.s]) ELSE NaN
    ELSE c

\* (cell >= m) for an integer m, elementwise: False for NaN.  A text cell
\* makes the comparison raise TypeError, see ComparisonRaises.
GeInt(c, m) == IsNum(c) /\ c.n >= m * c.d

GtInt(c, m) == IsNum(c) /\ c.n > m * c.d

\* '>=' not supported between instances of 'str' and 'int'
ComparisonRaises(f, cols) ==
    \E i \in f.idx : \E c \in cols : f.row[i][c].k = "str"

\* The threshold of an active genre: rank "Sometimes".
ActiveRank == 2

\* A listening type that calls every respondent with some active genre
\* "Single".
ListeningTypeAnyActive(x) == IF x >= 1 THEN "Single" ELSE "Multiple"

\* lambda x: "Single" if x == 1 else "Multiple"
ListeningType(x) == IF x = 1 THEN "Single" ELSE "Multiple"

\* ------------------------------------------------------------------ the script
\* A range: the (lo, hi) tuple of a slider.  some = FALSE is Python's None
\* (bpm_range without a tempo column) or, in the widget state, a slider the
\* user has not moved yet.
NoRange == [some |-> FALSE, lo |-> NaN, hi |-> NaN]

Range(lo, hi) == [some |-> TRUE, lo |-> lo, hi |-> hi]

\* st.slider(label, min, max, (min, max)): the value the user set, the
\* default (min, max) while the user has not moved it.
Slider(stored, lo, hi) == IF stored.some THEN stored ELSE Range(lo, hi)

\* The widget state of a new session: no slider moved.
NoWidgets ==
    [hours |-> NoRange, health |-> NoRange, bpm |-> NoRange,
     age_hours |-> NoRange]

\* What the names of the script are bound to at one point of a run.  exc
\* is the exception that ended the run ("none" while it is running), out
\* the calls made on the page and the console so far, in order, and
\* widgets the sliders drawn so far.  view and handed are history fields:
\* filtered_df as lines 67-73 leave it, and as the favourite-genre and
\* listening-style views receive it.
Unbound == EmptyFrame({})

NewRun(csv) ==
    [exc |-> "none", out |-> <<>>, widgets |-> {},
     df |-> csv, health_cols |-> <<>>, genre_cols |-> {},
     genre_freq_cols |-> {}, bpm_col |-> "",
     df_clean |-> Unbound, cleaned |-> FALSE,
     hours_range |-> NoRange, health_range |-> NoRange,
     bpm_range |-> NoRange,
     filtered_df |-> Unbound, view |-> Unbound, handed |-> Unbound,
     filtered |-> FALSE,
     bins |-> <<>>, labels |-> <<>>, binned |-> "no",
     genre_subset |-> Unbound, genre_means |-> <<>>,
     subset |-> Unbound, mh_melted |-> <<>>,
     age_group_summary |-> <<>>, reached |-> {}]

Emit(e, via, what) == [e EXCEPT !.out = Append(@, [via |-> via, what |-> what])]

Raise(e, name) == [e EXCEPT !.exc = name]

Running(e) == e.exc = "none"

\* Lines 17-19: the column groups, found by name.
Classify(e) ==
    [e EXCEPT
        !.health_cols = ColumnsAmong(e.df, HealthHeaders),
        !.genre_cols = SeqToSet(ColumnsAmong(e.df, FrequencyBracketHeaders)),
        !.bpm_col = IF "BPM" \in e.df.cols THEN "BPM" ELSE ""]

\* Lines 29-32: ordinal encoding, active_genre_count and listening_type,
\* written into df.  The comparison of line 31 raises on a text cell.
Encode(e) ==
    IF ~Running(e) THEN e
    ELSE
    LET cols == SeqToSet(ColumnsAmong(e.df, FrequencyHeaders))
        enc  == [cols |-> e.df.cols, idx |-> e.df.idx,
                 row |-> [i \in e.df.idx |->
                            [c \in e.df.cols |->
                                IF c \in cols THEN Replace(e.df.row[i][c])
                                ELSE e.df.row[i][c]]]]
        cnt(i) == Cardinality({c \in cols : GeInt(enc.row[i][c], ActiveRank)})
        counted == SetColumn(enc, "active_genre_count",
                             [i \in enc.idx |-> Num(cnt(i))])
        typed == SetColumn(counted, "listening_type",
                           [i \in enc.idx |-> Str(ListeningType(cnt(i)))])
    IN  IF ComparisonRaises(enc, cols)
        THEN Raise([e EXCEPT !.genre_freq_cols = cols, !.df = enc], "TypeError")
        ELSE [e EXCEPT !.genre_freq_cols = cols, !.df = typed]

\* The columns dropna of line 35 looks at.
RequiredCols(e) ==
    SeqToSet(e.health_cols) \cup {"Hours per day", "Exploratory", "Music effects"}

\* Line 44: the row-wise mean over the health columns, NaN skipped.
AvgHealth(r, health_cols) ==
    MeanSkipNa([j \in 1..Len(health_cols) |-> r[health_cols[j]]])

\* Lines 35-44: the cleaned table and its derived columns.
Clean(e) ==
    IF ~Running(e) THEN e
    ELSE
    LET dropped == DropNa(e.df, RequiredCols(e))
        coerce  == e.genre_cols \cup SeqToSet(e.health_cols)
        numeric == [cols |-> dropped.cols, idx |-> dropped.idx,
                    row |-> [i \in dropped.idx |->
                               [c \in dropped.cols |->
                                   IF c \in coerce THEN ToNumeric(dropped.row[i][c])
                                   ELSE dropped.row[i][c]]]]
        typed   == IF "listening_type" \in e.df.cols
                   THEN SetColumn(numeric, "listening_type",
                            [i \in numeric.idx |-> e.df.row[i]["listening_type"]])
                   ELSE numeric
        variety == SetColumn(typed, "Variety",
                       [i \in typed.idx |->
                           Num(Cardinality({c \in e.genre_cols :
                                               GtInt(typed.row[i][c], 0)}))])
        avg     == SetColumn(variety, "Avg_health",
                       [i \in variety.idx |->
                           AvgHealth(variety.row[i], e.health_cols)])
    IN  [e EXCEPT !.df_clean = avg, !.cleaned = TRUE]

\* An hours slider that shares its widget state with the secondary hours
\* slider of line 227.
HoursSliderSharedState(e, w) ==
    IF ~Running(e) THEN e
    ELSE
    LET cells == ColumnCells(e.df_clean, "Hours per day")
    IN  IF ~IsNum(MinOf(cells)) \/ ~IsNum(MaxOf(cells))
        THEN Raise(e, "ValueError")
        ELSE [Emit(e, "slider", "Hours Listening per Day") EXCEPT
                 !.hours_range = Slider(w.age_hours, IntTrunc(MinOf(cells)),
                                        IntTrunc(MaxOf(cells))),
                 !.widgets = @ \cup {"hours"}]

\* Lines 51-52: the hours slider.  int() of the NaN that min() gives for an
\* empty column raises ValueError.
HoursSlider(e, w) ==
    IF ~Running(e) THEN e
    ELSE
    LET cells == ColumnCells(e.df_clean, "Hours per day")
    IN  IF ~IsNum(MinOf(cells)) \/ ~IsNum(MaxOf(cells))
        THEN Raise(e, "ValueError")
        ELSE LET min_hours == IntTrunc(MinOf(cells))
                 max_hours == IntTrunc(MaxOf(cells))
             IN  [Emit(e, "slider", "Hours Listening per Day") EXCEPT
                     !.hours_range = Slider(w.hours, min_hours, max_hours),
                     !.widgets = @ \cup {"hours"}]

\* Lines 55-56: the average-health slider; float() keeps the value.
HealthSlider(e, w) ==
    IF ~Running(e) THEN e
    ELSE
    LET cells == ColumnCells(e.df_clean, "Avg_health")
        min_health == MinOf(cells)
        max_health == MaxOf(cells)
    IN  [Emit(e, "slider", "Average Mental Health Score") EXCEPT
            !.health_range = Slider(w.health, min_health, max_health),
            !.widgets = @ \cup {"health"}]

\* The cap on the tempo, lines 61 and 139.
BpmCap == 250

\* bpm_max of line 61: int(min(max, 250)).
BpmMax(cells) ==
    IF Leq(MaxOf(cells), Num(BpmCap)) THEN IntTrunc(MaxOf(cells))
    ELSE Num(BpmCap)

\* Lines 59-64: the tempo slider, drawn only when the column exists.
BpmSlider(e, w) ==
    IF ~Running(e) THEN e
    ELSE IF e.bpm_col # "" /\ e.bpm_col \in e.df_clean.cols
    THEN LET cells == ColumnCells(e.df_clean, e.bpm_col)
         IN  IF ~IsNum(MinOf(cells))
             THEN Raise(e, "ValueError")
             ELSE [Emit(e, "slider", "BPM (Beats Per Minute)") EXCEPT
                     !.bpm_range = Slider(w.bpm, IntTrunc(MinOf(cells)),
                                          BpmMax(cells)),
                     !.widgets = @ \cup {"bpm"}]
    ELSE [e EXCEPT !.bpm_range = NoRange]

\* Lines 67-70: the rows of df_clean inside the hours and the health range.
PrimaryMask(e, i) ==
    /\ Between(e.df_clean.row[i]["Hours per day"],
               e.hours_range.lo, e.hours_range.hi)
    /\ Between(e.df_clean.row[i]["Avg_health"],
               e.health_range.lo, e.health_range.hi)

\* Lines 67-73: the primary filtered view, a new frame.
ApplyFilters(e) ==
    IF ~Running(e) THEN e
    ELSE
    LET first == FilterRows(e.df_clean,
                            {i \in e.df_clean.idx : PrimaryMask(e, i)})
        second == IF e.bpm_range.some /\ e.bpm_col # ""
                  THEN FilterRows(first,
                          {i \in first.idx :
                              Between(first.row[i][e.bpm_col],
                                      e.bpm_range.lo, e.bpm_range.hi)})
                  ELSE first
    IN  [e EXCEPT !.filtered_df = second, !.view = second, !.filtered = TRUE]

\* Lines 76-107: the scatter plot and the histogram of the filtered view.
\* The plotting calls are taken to draw whatever frame they are given.
FirstCharts(e) ==
    IF ~Running(e) THEN e
    ELSE Emit(Emit(e, "plotly_chart", "fig1"), "plotly_chart", "fig2")

\* ------------------------------------------------------------------ tempo bins
\* A sequence of numeric cells in nondecreasing order.
RECURSIVE SortCells(_)
SortCells(q) ==
    IF q = <<>> THEN <<>>
    ELSE LET m == CHOOSE j \in 1..Len(q) : \A l \in 1..Len(q) : Leq(q[j], q[l])
         IN  <<q[m]>> \o SortCells(SubSeq(q, 1, m - 1) \o SubSeq(q, m + 1, Len(q)))

\* The non-missing cells of a column, one per row, sorted.
SortedColumn(f, c) ==
    LET labels == SortedLabels(f.idx)
        cells == [j \in 1..Len(labels) |-> f.row[labels[j]][c]]
    IN  SortCells(SelectSeq(cells, IsNum))

\* num_bins of line 135.
num_bins == 5

\* np.quantile(a, k / num_bins) of the sorted nonempty sequence a, by linear
\* interpolation between the two nearest ranks (exact arithmetic).
Quantile(a, k) ==
    LET pos == (Len(a) - 1) * k
        i   == pos \div num_bins
        r   == pos % num_bins
    IN  IF r = 0 THEN a[i + 1]
        ELSE RAdd(a[i + 1],
                  RMul(RSub(a[i + 2], a[i + 1]), Rat(r, num_bins)))

\* np.clip(bins, None, 250)
Clip(c) == IF Leq(c, Num(BpmCap)) THEN c ELSE Num(BpmCap)

\* np.unique: the distinct values in increasing order.
RECURSIVE SortSet(_)
SortSet(S) ==
    IF S = {} THEN <<>>
    ELSE LET m == CHOOSE x \in S : \A y \in S : Leq(x, y)
         IN  <<m>> \o SortSet(S \ {m})

\* Lines 138-140: the bin edges of the sorted nonempty tempo values a.
BinEdges(a) == SortSet({Clip(Quantile(a, k)) : k \in 0..num_bins})

\* Line 141: f"{int(bins[i])}-{int(bins[i+1])}"
BinLabel(lo, hi) == ToString(IntTrunc(lo).n) \o "-" \o ToString(IntTrunc(hi).n)

BinLabels(bins) ==
    IF Len(bins) < 2 THEN <<>>
    ELSE [j \in 1..(Len(bins) - 1) |-> BinLabel(bins[j], bins[j + 1])]

\* pd.cut(x, bins, labels, include_lowest=True) for one cell: the label of
\* the interval (bins[j], bins[j+1]] that holds it, the lowest edge
\* included; NaN for a missing cell and for a value outside the edges.
Cut(c, bins, labels) ==
    IF ~IsNum(c) \/ bins = <<>> THEN NaN
    ELSE LET below == Cardinality({j \in 1..Len(bins) : Lt(bins[j], c)})
             id == IF c = bins[1] THEN 1 ELSE below
         IN  IF id = 0 \/ id = Len(bins) THEN NaN ELSE Str(labels[id])

\* pd.cut with ordered=True refuses labels that repeat.
LabelsRepeat(labels) ==
    \E j, l \in 1..Len(labels) : j # l /\ labels[j] = labels[l]

\* Lines 136-163: the try block.  np.quantile raises on an empty column and
\* pd.cut on repeated labels; the except clause turns either into a
\* warning.  A single edge is no error for pd.cut: it has no interval, so
\* every row gets NaN, and the box plot is drawn.
BpmBins(e) ==
    LET a == SortedColumn(e.filtered_df, e.bpm_col)
    IN  IF a = <<>>
        THEN [Emit(e, "warning", "Could not compute BPM bins") EXCEPT
                 !.binned = "failed"]
        ELSE LET bins == BinEdges(a)
                 labels == BinLabels(bins)
             IN  IF LabelsRepeat(labels)
                 THEN [Emit(e, "warning", "Could not compute BPM bins") EXCEPT
                          !.bins = bins, !.labels = labels,
                          !.binned = "failed"]
                 ELSE [Emit(e, "plotly_chart", "fig4") EXCEPT
                          !.bins = bins, !.labels = labels,
                          !.binned = "done",
                          !.filtered_df =
                              SetColumn(e.filtered_df, "BPM_Range",
                                  [i \in e.filtered_df.idx |->
                                      Cut(e.filtered_df.row[i][e.bpm_col],
                                          bins, labels)])]

\* Lines 110-166: the tempo section.
BpmSection(e) ==
    IF ~Running(e) THEN e
    ELSE IF e.bpm_col # "" /\ e.bpm_col \in e.filtered_df.cols
    THEN BpmBins(Emit(e, "plotly_chart", "fig3"))
    ELSE Emit(e, "info", "BPM data not found in this dataset.")

\* ------------------------------------------------------------------ grouped views
\* The order groupby gives the favourite genres of the model: alphabetical.
genre_order == <<"Jazz", "Rock">>

\* The mean (NaN skipped) of column c over the rows of f whose key column
\* holds the text g.
GroupMean(f, key, g, c) ==
    LET labels == SortedLabels({i \in f.idx : f.row[i][key] = Str(g)})
    IN  MeanSkipNa([j \in 1..Len(labels) |-> f.row[labels[j]][c]])

\* A stable sort of a sequence of rows by the numeric column c.
RECURSIVE SortRows(_, _)
SortRows(q, c) ==
    IF q = <<>> THEN <<>>
    ELSE LET least(j) == \A l \in 1..Len(q) : Leq(q[j][c], q[l][c])
             m == CHOOSE j \in 1..Len(q) :
                     least(j) /\ \A l \in 1..(j - 1) : ~least(l)
         IN  <<q[m]>> \o
             SortRows(SubSeq(q, 1, m - 1) \o SubSeq(q, m + 1, Len(q)), c)

\* Lines 172-174: one row per favourite genre present, the mean of every
\* health column, their mean avg_score, sorted by avg_score.
GenreMeans(sub, health_cols) ==
    LET present == SelectSeq(genre_order,
                       LAMBDA g : \E i \in sub.idx : sub.row[i]["Fav genre"] = Str(g))
        cols == SeqToSet(health_cols) \cup {"Fav genre", "avg_score"}
        mean(g, c) == GroupMean(sub, "Fav genre", g, c)
        line(g) ==
            [c \in cols |->
                IF c = "Fav genre" THEN Str(g)
                ELSE IF c = "avg_score"
                THEN MeanSkipNa([j \in 1..Len(health_cols) |-> mean(g, health_cols[j])])
                ELSE mean(g, c)]
    IN  SortRows([j \in 1..Len(present) |-> line(present[j])], "avg_score")

\* Lines 169-190: the favourite-genre view.  An empty filtered view skips
\* the whole block; an empty genre_subset is printed on the console.
GenreView(e) ==
    IF ~Running(e) THEN e
    ELSE
    LET at == [e EXCEPT !.handed = e.filtered_df, !.reached = @ \cup {"genre"}]
    IN  IF IsEmpty(at.filtered_df) THEN at
        ELSE LET cols == {"Fav genre"} \cup SeqToSet(at.health_cols)
                 sub == DropNa(Project(at.filtered_df, cols), cols)
             IN  IF IsEmpty(sub)
                 THEN [Emit(at, "print", "No genre data available after filtering.")
                          EXCEPT !.genre_subset = sub]
                 ELSE [Emit(at, "plotly_chart", "fig5") EXCEPT
                          !.genre_subset = sub,
                          !.genre_means = GenreMeans(sub, at.health_cols)]

\* Lines 197-201: subset.melt, one row per health column and respondent.
Melt(sub, health_cols) ==
    LET labels == SortedLabels(sub.idx)
        n == Len(labels)
    IN  [j \in 1..(n * Len(health_cols)) |->
            [listening_type |-> sub.row[labels[((j - 1) % n) + 1]]["listening_type"],
             Condition |-> health_cols[((j - 1) \div n) + 1],
             Score |-> sub.row[labels[((j - 1) % n) + 1]]
                              [health_cols[((j - 1) \div n) + 1]]]]

\* Lines 194-214: the listening-style view.
ListeningView(e) ==
    IF ~Running(e) THEN e
    ELSE
    LET at == [e EXCEPT !.reached = @ \cup {"listening"}]
    IN  IF "listening_type" \in at.filtered_df.cols
        THEN LET cols == {"listening_type"} \cup SeqToSet(at.health_cols)
                 sub == DropNa(Project(at.filtered_df, cols), cols)
             IN  IF IsEmpty(sub)
                 THEN [Emit(at, "print",
                            "No data for listening type comparison after filtering.")
                          EXCEPT !.subset = sub]
                 ELSE [Emit(at, "plotly_chart", "fig6") EXCEPT
                          !.subset = sub,
                          !.mh_melted = Melt(sub, at.health_cols)]
        ELSE Emit(at, "print", "'listening_type' not found in filtered dataset.")

\* ------------------------------------------------------------------ age groups
\* Line 219-220: the edges and the labels of the age buckets.
age_bins == <<Num(0), Num(25), Num(40), Num(60), Num(100)>>

age_labels == <<"18-25", "26-40", "41-60", "60+">>

\* mh_cols of line 224.
mh_cols == <<"Anxiety", "Depression", "Insomnia", "OCD">>

\* The names the import statements of lines 1-5 bind.
imports == {"pd", "px", "st", "np", "plt"}

\* Lines 233-234: per age bucket, the mean of each health column and of
\* the hours.
AgeGroupSummary(f) ==
    [j \in 1..Len(age_labels) |->
        [c \in SeqToSet(mh_cols) \cup {"Age_Group", "Avg_Hours"} |->
            IF c = "Age_Group" THEN Str(age_labels[j])
            ELSE IF c = "Avg_Hours"
            THEN GroupMean(f, "Age_Group", age_labels[j], "Hours per day")
            ELSE GroupMean(f, "Age_Group", age_labels[j], c)]]

\* A secondary filter that binds its result to df_clean as well.
SecondaryFilterIntoClean(e, range) ==
    LET of_clean == FilterRows(e.df_clean,
                    {i \in e.df_clean.idx :
                        Between(e.df_clean.row[i]["Hours per day"],
                                range.lo, range.hi)})
    IN  [e EXCEPT !.filtered_df = of_clean, !.df_clean = of_clean]

\* Lines 228-231: the secondary filter rebinds filtered_df, first to rows
\* of df, then to the rows of df_clean inside the secondary hours range.
SecondaryFilter(e, range) ==
    LET of_df == FilterRows(e.df,
                    {i \in e.df.idx :
                        Between(e.df.row[i]["Hours per day"],
                                range.lo, range.hi)})
        of_clean == FilterRows(e.df_clean,
                    {i \in e.df_clean.idx :
                        Between(e.df_clean.row[i]["Hours per day"],
                                range.lo, range.hi)})
    IN  [[e EXCEPT !.filtered_df = of_df] EXCEPT !.filtered_df = of_clean]

\* Lines 232-244: groupby raises KeyError for a column the frame does not
\* have, and the call on sns NameError for a name never bound.
AgeSummary(e) ==
    IF IsEmpty(e.filtered_df)
    THEN Emit(e, "warning", "No data available for the selected hours range.")
    ELSE IF "Age_Group" \notin e.filtered_df.cols
    THEN Raise(e, "KeyError")
    ELSE LET done == [e EXCEPT !.age_group_summary = AgeGroupSummary(e.filtered_df)]
         IN  IF "sns" \notin imports
             THEN Raise(done, "NameError")
             ELSE Emit(done, "pyplot", "fig")

\* Lines 217-244: the age-group view.
AgeView(e, w) ==
    IF ~Running(e) THEN e
    ELSE
    LET grouped == SetColumn(e.df, "Age_Group",
                       [i \in e.df.idx |->
                           Cut(e.df.row[i]["Age"], age_bins, age_labels)])
        drawn == [Emit(e, "slider", "Select Hours of Music Listening per Day")
                     EXCEPT !.df = grouped,
                            !.reached = @ \cup {"age"},
                            !.widgets = @ \cup {"age_hours"},
                            !.hours_range = Slider(w.age_hours, Num(0), Num(10))]
    IN  AgeSummary(SecondaryFilter(drawn, drawn.hours_range))

\* One run of the script, top to bottom, with the widget state w.
Script(data, w) ==
    AgeView(
      ListeningView(GenreView(BpmSection(FirstCharts(ApplyFilters(
        BpmSlider(HealthSlider(HoursSlider(
          Clean(Encode(Classify(NewRun(data)))), w), w), w)))))), w)

\* ------------------------------------------------------------------ session
VARIABLES csv, session, run, reruns

vars == <<csv, session, run, reruns>>

\* The page has been opened: the script has run once with no slider moved.
Init ==
    /\ csv \in Datasets
    /\ session = NoWidgets
    /\ run = Script(csv, NoWidgets)
    /\ reruns = 0

\* The user leaves a slider at a new pair and Streamlit reruns the script.
Move(name, lo, hi) ==
    /\ reruns < MaxReruns
    /\ name \in run.widgets
    /\ Leq(lo, hi)
    /\ Range(lo, hi) # session[name]
    /\ session' = [session EXCEPT ![name] = Range(lo, hi)]
    /\ run' = Script(csv, session')
    /\ reruns' = reruns + 1
    /\ UNCHANGED csv

\* The whole hours between min_hours and max_hours of lines 51-52.
HoursStops ==
    LET cells == ColumnCells(run.df_clean, "Hours per day")
    IN  IF ~IsNum(MinOf(cells)) THEN {}
        ELSE {Num(h) : h \in IntTrunc(MinOf(cells)).n .. IntTrunc(MaxOf(cells)).n}

\* Positions of the health slider: the scores present in the cleaned table.
HealthStops == Nums(ColumnCells(run.df_clean, "Avg_health"))

\* Positions of the tempo slider: its two ends and the whole tempos between.
BpmStops ==
    IF "BPM" \notin run.df_clean.cols THEN {}
    ELSE LET cells == ColumnCells(run.df_clean, "BPM")
         IN  IF ~IsNum(MinOf(cells)) THEN {}
             ELSE {p \in {IntTrunc(MinOf(cells)), BpmMax(cells)} \cup
                         {IntTrunc(c) : c \in Nums(cells)} :
                     Leq(IntTrunc(MinOf(cells)), p) /\ Leq(p, BpmMax(cells))}

\* Positions of the secondary hours slider, between 0.0 and 10.0.
AgeHoursStops == {Num(0), Num(1), Num(10)}

SetHoursRange == \E lo, hi \in HoursStops : Move("hours", lo, hi)

SetHealthRange == \E lo, hi \in HealthStops : Move("health", lo, hi)

SetBpmRange == \E lo, hi \in BpmStops : Move("bpm", lo, hi)

SetAgeHoursRange == \E lo, hi \in AgeHoursStops : Move("age_hours", lo, hi)

Next ==
    \/ SetHoursRange
    \/ SetHealthRange
    \/ SetBpmRange
    \/ SetAgeHoursRange

Spec == Init /\ [][Next]_vars

\* ------------------------------------------------------------------ properties
\* A call of the given kind and text was made during the last run.
Called(via, what) ==
    \E j \in 1..Len(run.out) : run.out[j] = [via |-> via, what |-> what]

\* Some message with this text reached the page or the console.
Said(what) == \E j \in 1..Len(run.out) : run.out[j].what = what

\* No sidebar slider has been moved: each one returns its full (min, max).
PrimaryAtFullRange ==
    ~session.hours.some /\ ~session.health.some /\ ~session.bpm.some

\* C1: with every primary range control at the full bounds the script
\* derives for it, the primary filtered view has exactly the rows of the
\* cleaned table.
C1_FullRangeKeepsEveryRow ==
    (run.filtered /\ PrimaryAtFullRange) => run.view = run.df_clean

\* C2: a rerun that changes only the secondary (age-group) hours range
\* leaves the primary filtered view, and what the favourite-genre and
\* listening-style views compute from it, unchanged.
C2_SecondaryLeavesPrimaryView ==
    [][(/\ session'.hours = session.hours
        /\ session'.health = session.health
        /\ session'.bpm = session.bpm)
       => (/\ run'.view = run.view
           /\ run'.handed = run.handed
           /\ run'.genre_means = run.genre_means
           /\ run'.mh_melted = run.mh_melted)]_vars

\* A run after the secondary slider was moved, in which the genre view drew
\* its chart from a nonempty primary view while filtered_df ended up bound
\* to a different, secondary view.
C2_Witness ==
    /\ session.age_hours.some
    /\ Called("plotly_chart", "fig5")
    /\ ~IsEmpty(run.handed)
    /\ "age" \in run.reached
    /\ run.filtered_df.idx # run.handed.idx

\* The primary hours range set by the user holds no record of the cleaned
\* table, and neither does the secondary one.
HoursExcludeEveryRecord ==
    /\ run.filtered /\ ~IsEmpty(run.df_clean)
    /\ session.hours.some /\ session.age_hours.some
    /\ \A i \in run.df_clean.idx :
          /\ ~Between(run.df_clean.row[i]["Hours per day"],
                      session.hours.lo, session.hours.hi)
          /\ ~Between(run.df_clean.row[i]["Hours per day"],
                      session.age_hours.lo, session.age_hours.hi)

\* C3: when the hours-per-day filter excludes every record, each of the
\* three aggregation views reports "no data" and no exception ends the run.
C3_EmptyViewsReportNoData ==
    HoursExcludeEveryRecord =>
        /\ Running(run)
        /\ Said("No genre data available after filtering.")
        /\ Said("No data for listening type comparison after filtering.")
        /\ Said("No data available for the selected hours range.")

\* The tempo values of the primary filtered view.
ViewTempos == Nums(ColumnCells(run.view, "BPM"))

\* C4: when the tempo column exists and the primary filtered view is empty
\* or has fewer than 2 distinct tempo values, the run warns, draws no
\* tempo-range box plot and still goes on to the favourite-genre,
\* listening-style and age-group views.
C4_BinningFailureWarnsAndGoesOn ==
    (run.filtered /\ run.bpm_col = "BPM" /\ Cardinality(ViewTempos) < 2) =>
        /\ Called("warning", "Could not compute BPM bins")
        /\ ~Called("plotly_chart", "fig4")
        /\ {"genre", "listening", "age"} \subseteq run.reached

\* The label of the bin that holds the tempo c once c is capped at 250.
LabelOfCapped(c, bins, labels) ==
    LET capped == Clip(c)
    IN  {labels[j] : j \in {l \in 1..Len(labels) :
            \/ Lt(bins[l], capped) /\ Leq(capped, bins[l + 1])
            \/ l = 1 /\ capped = bins[1]}}

\* C5: whenever the binning went through, there are at most 5 bins, the
\* edges do not decrease and stay at or below 250, and every record of the
\* filtered view carries exactly one bin label, the one of its tempo capped
\* at 250.
C5_EveryRecordInOneBin ==
    run.binned = "done" =>
        /\ Len(run.labels) <= num_bins
        /\ \A j \in 1..(Len(run.bins) - 1) : Leq(run.bins[j], run.bins[j + 1])
        /\ \A j \in 1..Len(run.bins) : Leq(run.bins[j], Num(BpmCap))
        /\ \A i \in run.handed.idx :
              LabelOfCapped(run.handed.row[i]["BPM"], run.bins, run.labels)
                  = {run.handed.row[i]["BPM_Range"].s}

\* C6: whenever the secondary hours range keeps a record of the cleaned
\* table, the age-group view gets, without an error, one row of means per
\* age bucket.
C6_AgeGroupMeansComputed ==
    ("age" \in run.reached /\ ~IsEmpty(run.filtered_df)) =>
        /\ Running(run)
        /\ Len(run.age_group_summary) = Len(age_labels)
        /\ \A j \in 1..Len(run.age_group_summary) :
              run.age_group_summary[j]["Age_Group"] = Str(age_labels[j])

\* C7: every record of the cleaned table has an Avg_health, and it is the
\* sum of all its health-column values divided by the number of health
\* columns.
C7_AvgHealthIsMeanOfAll ==
    run.cleaned =>
        \A i \in run.df_clean.idx :
            LET scores == [j \in 1..Len(run.health_cols) |->
                              run.df_clean.row[i][run.health_cols[j]]]
            IN  /\ \A j \in 1..Len(scores) : IsNum(scores[j])
                /\ run.df_clean.row[i]["Avg_health"]
                       = RDivInt(SumSeq(scores), Len(scores))

\* The number of genre-frequency columns of row i of the CSV that say
\* "Sometimes" or "Very frequently" (rank 2 or more).
ActiveGenres(i) ==
    Cardinality({c \in {"Frequency [Jazz]", "Frequency [Rock]"} :
                    csv.row[i][c] \in {Str("Sometimes"), Str("Very frequently")}})

\* C8: every record is "Single" exactly when it has one active genre and
\* "Multiple" otherwise, none included; active_genre_count is the number of
\* genre-frequency columns of rank 2 or more.
C8_SingleIffOneActiveGenre ==
    \A f \in {run.df, run.df_clean} :
        "listening_type" \in f.cols =>
            \A i \in f.idx :
                /\ f.row[i]["active_genre_count"] = Num(ActiveGenres(i))
                /\ f.row[i]["listening_type"] =
                       IF ActiveGenres(i) = 1 THEN Str("Single")
                       ELSE Str("Multiple")

\* A cleaned table with a record without any active genre, labelled
\* "Multiple", beside a record with exactly one, labelled "Single".
C8_Witness ==
    /\ run.cleaned
    /\ \E i, j \in run.df_clean.idx :
          /\ ActiveGenres(i) = 0
          /\ run.df_clean.row[i]["listening_type"] = Str("Multiple")
          /\ ActiveGenres(j) = 1
          /\ run.df_clean.row[j]["listening_type"] = Str("Single")

\* The cells of the CSV that hold a frequency word outside freq_map.
Unmapped ==
    {<<i, c>> \in csv.idx \X {"Frequency [Jazz]", "Frequency [Rock]"} :
        csv.row[i][c].k = "str" /\ csv.row[i][c].s \notin DOMAIN freq_map}

\* C9: a frequency value outside the four known words is encoded as
\* missing, and the derivation goes through: the cleaned table is built
\* without an error.
C9_UnmappedBecomesMissing ==
    \A u \in Unmapped :
        /\ run.cleaned
        /\ IsNA(run.df.row[u[1]][u[2]])

\* The cleaned table as lines 35-44 leave it.
CleanedTable == Clean(Encode(Classify(NewRun(csv)))).df_clean

\* C10: nothing after line 44 changes the cleaned table: at the end of
\* every run, whatever the sliders say, it is what lines 35-44 built.
C10_CleanedTableUnchanged ==
    run.cleaned => run.df_clean = CleanedTable

\* A run with the primary and the secondary hours range both moved, in
\* which the binning added BPM_Range to the filtered view and the
\* secondary view dropped a record; the cleaned table has neither change.
C10_Witness ==
    /\ run.cleaned
    /\ session.hours.some /\ session.age_hours.some
    /\ run.binned = "done"
    /\ "BPM_Range" \in run.handed.cols
    /\ "age" \in run.reached
    /\ run.filtered_df.idx # run.df_clean.idx
    /\ "BPM_Range" \notin run.df_clean.cols

====
